---- MODULE Spec2Model ----
(***************************************************************************)
(* Model of extension/src/sites/install.js: the install popup of the       *)
(* extension.  It resolves and validates the web app manifest of the       *)
(* current page, asks the native connector for the existing sites and      *)
(* profiles, wires the form validators and sends the InstallSite request.  *)
(*                                                                         *)
(* Strings that the code inspects character by character (URL pathnames,   *)
(* category and keyword tags) are sequences of one-character strings.      *)
(* A URL string is kept in its parsed and serialised form: a record of     *)
(* origin, path segments and query.                                        *)
(***************************************************************************)
EXTENDS Integers, Sequences, FiniteSets, TLC

(***************************************************************************)
(* Bounds of the model.                                                    *)
(***************************************************************************)
\* Most user edits (typing in an input, adding or removing a tag, changing
\* the profile select) in one run of the popup.
MaxEdits == 3
\* Most tags one tag input holds.
MaxTags == 2

(***************************************************************************)
(* URLs.                                                                   *)
(***************************************************************************)
Origins == {"https://x.test", "https://y.test"}

\* URL.host of an origin
Host(origin) == IF origin = "https://x.test" THEN "x.test" ELSE "y.test"

\* Path segments.  SegApp is a raw string prefix of SegApplication.
SegApp == <<"a">>
SegApplication == <<"a", "b">>
SegPage == <<"p">>
SegEmpty == <<>>
SegDot == <<".">>
SegDotDot == <<".", ".">>

\* A parsed URL: href is origin + pathname + search.
Url(origin, path, search) == [origin |-> origin, path |-> path, search |-> search]

\* URL.pathname: every segment preceded by "/".
RECURSIVE Pathname(_)
Pathname(path) ==
    IF path = <<>> THEN <<>>
    ELSE <<"/">> \o Head(path) \o Pathname(Tail(path))

\* String.prototype.startsWith on character sequences.
StartsWith(s, prefix) ==
    /\ Len(prefix) <= Len(s)
    /\ SubSeq(s, 1, Len(prefix)) = prefix

\* Removal of "." and ".." segments, as the URL parser does while it reads
\* the path: ".." drops the last segment read so far, and a dot segment in
\* last position leaves an empty last segment.
RECURSIVE RemoveDots(_, _)
RemoveDots(segs, out) ==
    IF segs = <<>> THEN (IF out = <<>> THEN <<SegEmpty>> ELSE out)
    ELSE LET s == Head(segs)
             last == Len(segs) = 1
         IN  IF s = SegDotDot
             THEN LET popped == IF out = <<>> THEN out ELSE SubSeq(out, 1, Len(out) - 1)
                  IN  RemoveDots(Tail(segs), IF last THEN Append(popped, SegEmpty) ELSE popped)
             ELSE IF s = SegDot
             THEN RemoveDots(Tail(segs), IF last THEN Append(out, SegEmpty) ELSE out)
             ELSE RemoveDots(Tail(segs), Append(out, s))

\* The values a manifest member (start_url, scope) can hold:
\*   absent : the member is missing (undefined)
\*   empty  : the empty string
\*   abs    : an absolute URL string
\*   path   : a path-absolute reference, "/a/p"
\*   rel    : a path-relative reference, ".", "a", "../a/"
\*   bad    : a string the URL parser rejects
RefAbsent == [kind |-> "absent"]
RefEmpty == [kind |-> "empty"]
RefBad == [kind |-> "bad"]
RefAbs(url) == [kind |-> "abs", url |-> url]
RefPath(path, search) == [kind |-> "path", path |-> path, search |-> search]
RefRel(segs, search) == [kind |-> "rel", segs |-> segs, search |-> search]

\* JavaScript truthiness of a manifest member: undefined and "" are falsy.
Truthy(ref) == ref.kind \notin {"absent", "empty"}

\* new URL(ref, base).href, for a reference the parser accepts.
NewUrl(ref, base) ==
    CASE ref.kind = "abs" -> ref.url
      [] ref.kind = "path" -> Url(base.origin, RemoveDots(ref.path, <<>>), ref.search)
      [] ref.kind = "rel" ->
            Url(base.origin,
                RemoveDots(SubSeq(base.path, 1, Len(base.path) - 1) \o ref.segs, <<>>),
                ref.search)

(***************************************************************************)
(* obtainManifest: resolution and validation of the manifest URLs.         *)
(***************************************************************************)
\* Error messages are sequences of strings: the text, then what a template
\* literal interpolates into it.
NoError == <<>>
ErrInvalidUrl == <<"TypeError: invalid URL">>
ErrFetch == <<"TypeError: NetworkError when attempting to fetch resource">>
ErrOrigin == <<"Start and document URL are not in the same origin">>
ErrScope == <<"Start URL is not within the scope">>

\* A URL member that was not assigned because an earlier statement threw.
Unset == [kind |-> "unset"]

\* A plausible slip: the absent start URL defaults to the manifest URL.
ResolveStartUrlDefaultsToManifestUrl(raw, manifestUrl, documentUrl) ==
    IF Truthy(raw.start_url)
    THEN IF raw.start_url.kind = "bad"
         THEN [threw |-> ErrInvalidUrl, url |-> Unset]
         ELSE [threw |-> NoError, url |-> NewUrl(raw.start_url, documentUrl)]
    ELSE [threw |-> NoError, url |-> manifestUrl]

\* Lines 17-22: the start URL, parsed with the document URL as the base;
\* the document URL when the manifest has none.
ResolveStartUrl(raw, manifestUrl, documentUrl) ==
    IF Truthy(raw.start_url)
    THEN IF raw.start_url.kind = "bad"
         THEN [threw |-> ErrInvalidUrl, url |-> Unset]
         ELSE [threw |-> NoError, url |-> NewUrl(raw.start_url, documentUrl)]
    ELSE [threw |-> NoError, url |-> documentUrl]

\* A plausible slip: the scope parsed with the manifest URL as the base, as
\* the comment above the statement says.
ResolveScopeAgainstManifestUrl(raw, manifestUrl, documentUrl, startUrl) ==
    IF Truthy(raw.scope)
    THEN IF raw.scope.kind = "bad"
         THEN [threw |-> ErrInvalidUrl, url |-> Unset]
         ELSE [threw |-> NoError, url |-> NewUrl(raw.scope, manifestUrl)]
    ELSE [threw |-> NoError, url |-> NewUrl(RefRel(<<SegDot>>, <<>>), startUrl)]

\* Lines 26-32: the scope, parsed with the document URL as the base; "."
\* with the start URL as the base when the manifest has none.
ResolveScope(raw, manifestUrl, documentUrl, startUrl) ==
    IF Truthy(raw.scope)
    THEN IF raw.scope.kind = "bad"
         THEN [threw |-> ErrInvalidUrl, url |-> Unset]
         ELSE [threw |-> NoError, url |-> NewUrl(raw.scope, documentUrl)]
    ELSE [threw |-> NoError, url |-> NewUrl(RefRel(<<SegDot>>, <<>>), startUrl)]

\* The condition of line 40, also that of line 219: same origin as the
\* scope and the scope's pathname a raw prefix of the URL's pathname.
WithinScope(url, scope) ==
    /\ url.origin = scope.origin
    /\ StartsWith(Pathname(url.path), Pathname(scope.path))

\* A plausible slip: the origin check against the document URL left out.
CheckManifestUrlsScopeOnly(startUrl, scopeUrl, documentUrl) ==
    IF ~WithinScope(startUrl, scopeUrl) THEN ErrScope
    ELSE NoError

\* Lines 35-40: the two load-time rules.
CheckManifestUrls(startUrl, scopeUrl, documentUrl) ==
    IF startUrl.origin # documentUrl.origin THEN ErrOrigin
    ELSE IF ~WithinScope(startUrl, scopeUrl) THEN ErrScope
    ELSE NoError

\* Lines 11-44 after the fetch: the manifest with start_url and scope
\* replaced by their resolved values, and the error thrown, if any.
obtainManifest(raw, manifestUrl, documentUrl) ==
    LET start == ResolveStartUrl(raw, manifestUrl, documentUrl)
        scope == IF start.threw # NoError THEN [threw |-> start.threw, url |-> Unset]
                 ELSE ResolveScope(raw, manifestUrl, documentUrl, start.url)
        threw == IF scope.threw # NoError THEN scope.threw
                 ELSE CheckManifestUrls(start.url, scope.url, documentUrl)
    IN  [threw |-> threw,
         manifest |-> [raw EXCEPT !.start_url = start.url, !.scope = scope.url]]

(***************************************************************************)
(* The native connector protocol.                                          *)
(***************************************************************************)
\* null and undefined where a string is expected.
Null == "<null>"
Undefined == "<undefined>"

ErrTransport == <<"Error: Attempt to postMessage on disconnected port">>

\* new Error(response.data).message
ErrData(data) == <<data>>
\* `Received invalid response type: ${response.type}`
ErrInvalidType(type) == <<"Received invalid response type: ", type>>

\* What awaiting browser.runtime.sendNativeMessage gives: a rejection, or
\* the connector's response {type, data}.
Rejected == [rejected |-> TRUE, type |-> Undefined, data |-> Undefined]
Response(type, data) == [rejected |-> FALSE, type |-> type, data |-> data]

\* The outcome of the code that awaits and checks a reply: what it throws
\* (NoError if nothing) and the value it goes on with.
Threw(error) == [threw |-> error, value |-> Undefined]
Returned(value) == [threw |-> NoError, value |-> value]

\* A plausible slip: the check for an "Error" response left out.
obtainSiteListNoErrorCheck(reply) ==
    IF reply.rejected THEN Threw(ErrTransport)
    ELSE IF reply.type # "SiteList" THEN Threw(ErrInvalidType(reply.type))
    ELSE Returned(reply.data)

\* A plausible slip: the tag of the other list expected (lines 46-55 and
\* 57-66 differ in the tag alone).
obtainSiteListWrongTag(reply) ==
    IF reply.rejected THEN Threw(ErrTransport)
    ELSE IF reply.type = "Error" THEN Threw(ErrData(reply.data))
    ELSE IF reply.type # "ProfileList" THEN Threw(ErrInvalidType(reply.type))
    ELSE Returned(reply.data)

\* Lines 46-55.
obtainSiteList(reply) ==
    IF reply.rejected THEN Threw(ErrTransport)
    ELSE IF reply.type = "Error" THEN Threw(ErrData(reply.data))
    ELSE IF reply.type # "SiteList" THEN Threw(ErrInvalidType(reply.type))
    ELSE Returned(reply.data)

\* Lines 57-66.
obtainProfileList(reply) ==
    IF reply.rejected THEN Threw(ErrTransport)
    ELSE IF reply.type = "Error" THEN Threw(ErrData(reply.data))
    ELSE IF reply.type # "ProfileList" THEN Threw(ErrInvalidType(reply.type))
    ELSE Returned(reply.data)

\* Lines 148-157: the reply to CreateProfile.
createProfileReply(reply) ==
    IF reply.rejected THEN Threw(ErrTransport)
    ELSE IF reply.type = "Error" THEN Threw(ErrData(reply.data))
    ELSE IF reply.type # "ProfileCreated" THEN Threw(ErrInvalidType(reply.type))
    ELSE Returned(reply.data)

\* A plausible slip: the check of line 279 left out.
installSiteReplyNoTypeCheck(reply) ==
    IF reply.rejected THEN Threw(ErrTransport)
    ELSE IF reply.type = "Error" THEN Threw(ErrData(reply.data))
    ELSE Returned(reply.data)
\* Lines 263-279: the reply to InstallSite.
installSiteReply(reply) ==
    IF reply.rejected THEN Threw(ErrTransport)
    ELSE IF reply.type = "Error" THEN Threw(ErrData(reply.data))
    ELSE IF reply.type # "SiteInstalled" THEN Threw(ErrInvalidType(reply.type))
    ELSE Returned(reply.data)

\* The tag each command expects (the table of the protocol).
ExpectedTag(cmd) ==
    CASE cmd = "GetSiteList" -> "SiteList"
      [] cmd = "GetProfileList" -> "ProfileList"
      [] cmd = "CreateProfile" -> "ProfileCreated"
      [] cmd = "InstallSite" -> "SiteInstalled"

(***************************************************************************)
(* Form helpers.                                                           *)
(***************************************************************************)
\* a || b on strings: undefined, null and "" are falsy.
Or(a, b) == IF a \in {"", Null, Undefined} THEN b ELSE a

\* Array.prototype.toString: the elements joined by ",".
RECURSIVE ArrayToString(_)
ArrayToString(items) ==
    IF items = <<>> THEN <<>>
    ELSE IF Len(items) = 1 THEN Head(items)
    ELSE Head(items) \o <<",">> \o ArrayToString(Tail(items))

\* An optional array member of the manifest (categories, keywords).
NoList == [present |-> FALSE, items |-> <<>>]
List(items) == [present |-> TRUE, items |-> items]

ErrNoToString == <<"TypeError: manifest member is undefined">>

\* Lines 253-255 and 257-259: the user's tags if their toString differs
\* from that of the manifest's array, else the empty array.  toString of a
\* missing manifest member throws.
tagsOverride(user, manifestList) ==
    IF ~manifestList.present THEN Threw(ErrNoToString)
    ELSE IF ArrayToString(user) # ArrayToString(manifestList.items) THEN Returned(user)
    ELSE Returned(<<>>)

\* Line 183: the names of the existing sites.
existingNames(siteList) ==
    { Or(siteList[i].config_name, Or(siteList[i].manifest_name, siteList[i].manifest_short_name)) :
        i \in 1..Len(siteList) }

\* Lines 97-99: the placeholder of the name input.
placeholderName(m) == Or(m.name, Or(m.short_name, Host(m.scope.origin)))

NameReused == "Site name must not be reused from existing web apps"

\* A plausible slip: only the typed name is checked, not the placeholder.
nameValidationValueOnly(value, placeholder, siteList) ==
    IF value \in existingNames(siteList) THEN NameReused ELSE ""

\* Lines 178-193: the custom validity the name validator sets.
nameValidation(value, placeholder, siteList) ==
    IF Or(value, placeholder) \in existingNames(siteList) THEN NameReused ELSE ""

StartUrlInvalid == "Start URL needs to be a valid URL"
StartUrlOutOfScope == "Start URL needs to be within the scope"

\* A plausible slip: the pathname check left out of the validator.
startUrlValidationOriginOnly(value, scope) ==
    IF ~Truthy(value) THEN ""
    ELSE IF value.kind # "abs" THEN StartUrlInvalid
    ELSE IF value.url.origin # scope.origin THEN StartUrlOutOfScope
    ELSE ""

\* Lines 200-227: the custom validity the start URL validator sets.  An
\* input of type url has a type mismatch unless it holds an absolute URL.
startUrlValidation(value, scope) ==
    IF ~Truthy(value) THEN ""
    ELSE IF value.kind # "abs" THEN StartUrlInvalid
    ELSE IF value.url.origin # scope.origin
             \/ ~StartsWith(Pathname(value.url.path), Pathname(scope.path))
         THEN StartUrlOutOfScope
    ELSE ""

\* Setting select.value: the option with that value, or none ("").
SelectValue(options, v) ==
    IF \E i \in 1..Len(options) : options[i] = v THEN v ELSE ""

CreateNewProfile == "create-new-profile"

\* Line 166: the value of new Option(name, id, true, true): the id, or the
\* option's text when the id is undefined.
OptionValue(name, id) ==
    IF id # Undefined THEN id
    ELSE IF name = Null THEN "null" ELSE name

(***************************************************************************)
(* State.                                                                  *)
(***************************************************************************)
VARIABLES
    world,                \* the page, its manifest and the connector's data
    pc,                   \* where initializeForm is
    manifestUrl, documentUrl, manifest, sites, profiles,
    uncaught,             \* the error an async function rejected with
    submitDisabled, errorText,
    toastShown,           \* the error toast is visible (it is not hidden by a timer)
    namePlaceholder, nameValue, nameCustom,
    startUrlValue, startUrlCustom,
    userCategories, userKeywords,
    profileOptions, profileValue, lastProfileSelection,
    realSelection,        \* the profile selected last, by the user or by a creation
    modalShown, createDisabled, createPc, newProfileName,
    submitPc,
    lastClick,            \* what the last click on submit did
    submitLocals,         \* userCategories and userKeywords of that click
    sent,                 \* the commands sent to the connector, in order
    inFlight,             \* the unanswered InstallSite and CreateProfile requests
    lastCall,             \* the last command answered, with its reply
    closeTimer, windowClosed,
    edits,                \* user edits so far
    res                   \* inputs and results of obtainManifest alone

loadVars == <<manifestUrl, documentUrl, manifest, sites, profiles>>
nameVars == <<namePlaceholder, nameValue, nameCustom>>
startUrlVars == <<startUrlValue, startUrlCustom>>
tagVars == <<userCategories, userKeywords>>
profileVars == <<profileOptions, profileValue, lastProfileSelection, realSelection>>
createVars == <<modalShown, createDisabled, createPc, newProfileName>>
errorVars == <<errorText, toastShown>>
closeVars == <<closeTimer, windowClosed>>
clickVars == <<lastClick, submitLocals>>
formVars == <<nameVars, startUrlVars, tagVars, profileVars, createVars>>
flowVars == <<pc, loadVars, uncaught, submitDisabled, errorVars, formVars,
              submitPc, clickVars, sent, inFlight, lastCall, closeVars, edits>>
vars == <<world, flowVars, res>>

(***************************************************************************)
(* The worlds the popup is opened in.                                      *)
(***************************************************************************)
DocX == "https://x.test"
DocY == "https://y.test"

UrlAppPage == Url(DocX, <<SegApp, SegPage>>, <<>>)          \* /a/p
UrlAppDir == Url(DocX, <<SegApp, SegEmpty>>, <<>>)          \* /a/
UrlApp == Url(DocX, <<SegApp>>, <<>>)                       \* /a
UrlApplication == Url(DocX, <<SegApplication>>, <<>>)       \* /ab
UrlPage == Url(DocX, <<SegPage>>, <<>>)                     \* /p
UrlAppPageQuery == Url(DocX, <<SegApp, SegPage>>, <<"?", "q">>)
UrlOtherApp == Url(DocY, <<SegApp>>, <<>>)                  \* other origin, /a
UrlOtherAppPage == Url(DocY, <<SegApp, SegPage>>, <<>>)
UrlManifest == Url(DocX, <<<<"m">>>>, <<>>)                 \* /m
UrlManifestDeep == Url(DocX, <<<<"s">>, <<"m">>>>, <<>>)    \* /s/m
UrlManifestOther == Url(DocY, <<<<"s">>, <<"m">>>>, <<>>)   \* other origin, /s/m

TagA == <<"a">>
TagB == <<"b">>
TagAB == <<"a", ",", "b">>
\* The tags the user can add to the categories and to the keywords.
CategoryValues == {TagA, TagB, TagAB}
KeywordValues == {TagA}

Manifest(name, shortName, startUrl, scope, categories, keywords) ==
    [name |-> name, short_name |-> shortName, start_url |-> startUrl, scope |-> scope,
     categories |-> categories, keywords |-> keywords]

\* Manifests as fetched: three that pass the checks of obtainManifest (the
\* placeholder name comes from name, short_name and the scope host in turn),
\* then a start URL of another origin, a start URL outside the scope and a
\* start URL that does not parse.
ManifestFoo ==
    Manifest("Foo", Undefined, RefPath(<<SegApp>>, <<>>), RefPath(<<SegApp>>, <<>>),
             List(<<TagA, TagB>>), List(<<TagA>>))
ManifestBar ==
    Manifest(Undefined, "Bar", RefAbsent, RefAbsent, List(<<TagAB>>), List(<<>>))
ManifestHost ==
    Manifest(Undefined, Undefined, RefRel(<<SegPage>>, <<>>), RefEmpty, NoList, List(<<>>))
ManifestCrossOrigin ==
    Manifest("Foo", "Bar", RefAbs(UrlOtherApp), RefAbsent, List(<<>>), List(<<>>))
ManifestOutOfScope ==
    Manifest("Foo", "Bar", RefPath(<<SegPage>>, <<>>), RefPath(<<SegApp, SegEmpty>>, <<>>),
             List(<<>>), List(<<>>))
ManifestBadUrl ==
    Manifest("Foo", "Bar", RefBad, RefAbsent, List(<<>>), List(<<>>))

Site(configName, manifestName, shortName) ==
    [config_name |-> configName, manifest_name |-> manifestName,
     manifest_short_name |-> shortName]

\* The connector's site lists (Object.values order).
NoSites == <<>>
SitesFoo == <<Site("Foo", "Other", Undefined)>>
SitesBarHost == <<Site(Undefined, Undefined, "Bar"), Site(Undefined, "x.test", "Foo")>>

Profile(ulid, name) == [ulid |-> ulid, name |-> name]

\* The connector's profile lists.
NoProfiles == <<>>
OneProfile == <<Profile("P1", "Default")>>

\* The ulid the connector gives a profile it creates.
NewUlid == "P2"

World(raw, siteList, profileList) ==
    [manifestUrl |-> UrlManifestDeep, documentUrl |-> UrlAppPage,
     raw |-> raw, sites |-> siteList, profiles |-> profileList]

Worlds ==
    { World(ManifestFoo, SitesFoo, OneProfile),
      World(ManifestFoo, NoSites, NoProfiles),
      World(ManifestBar, SitesBarHost, OneProfile),
      World(ManifestBar, SitesFoo, NoProfiles),
      World(ManifestHost, SitesBarHost, NoProfiles),
      World(ManifestHost, NoSites, OneProfile),
      World(ManifestCrossOrigin, NoSites, OneProfile),
      World(ManifestOutOfScope, NoSites, OneProfile),
      World(ManifestBadUrl, NoSites, OneProfile) }

\* What the user can type.
NameInputs == {"", "Foo", "Baz"}
StartUrlInputs ==
    {RefEmpty, RefBad, RefAbs(UrlAppPage), RefAbs(UrlApplication), RefAbs(UrlOtherApp)}
NewProfileNames == {"", "Work"}

\* The replies the connector can give to a command whose data would be d.
Replies(cmd, d) ==
    << Response(ExpectedTag(cmd), d), Response("Error", "boom"),
       Response("Unexpected", Undefined), Rejected,
       Response(IF cmd = "GetSiteList" THEN "ProfileList" ELSE "SiteList", <<>>) >>

(***************************************************************************)
(* Initial state: the popup document as loaded, initializeForm called.     *)
(***************************************************************************)
\* The record of an answered command.  The reply is kept under its type, as
\* the data of replies of different types are values of different kinds.
Call(cmd, reply) == [cmd |-> cmd, reply |-> (reply.type :> reply)]
NoCall == Call("none", Rejected)
NoRes == [phase |-> "off"]

\* The submit button is disabled in the popup's markup until line 174.
SubmitInitiallyDisabled == TRUE

FlowInit ==
    /\ pc = "obtainUrls"
    /\ manifestUrl = Unset /\ documentUrl = Unset /\ manifest = Unset
    /\ sites = <<>> /\ profiles = <<>>
    /\ uncaught = NoError
    /\ submitDisabled = SubmitInitiallyDisabled
    /\ errorText = NoError /\ toastShown = FALSE
    /\ namePlaceholder = "" /\ nameValue = "" /\ nameCustom = ""
    /\ startUrlValue = RefEmpty /\ startUrlCustom = ""
    /\ userCategories = <<>> /\ userKeywords = <<>>
    /\ profileOptions = <<>> /\ profileValue = "" /\ lastProfileSelection = ""
    /\ realSelection = ""
    /\ modalShown = FALSE /\ createDisabled = FALSE /\ createPc = "idle"
    /\ newProfileName = ""
    /\ submitPc = "unset" /\ lastClick = "none"
    /\ submitLocals = [userCategories |-> <<>>, userKeywords |-> <<>>]
    /\ sent = <<>> /\ lastCall = NoCall
    /\ inFlight = [InstallSite |-> 0, CreateProfile |-> 0]
    /\ closeTimer = FALSE /\ windowClosed = FALSE
    /\ edits = 0

Init ==
    /\ world \in Worlds
    /\ FlowInit
    /\ res = NoRes

(***************************************************************************)
(* initializeForm, lines 68-231.                                           *)
(***************************************************************************)
Command(cmd, params) == [cmd |-> cmd, params |-> params]
NoParams == [none |-> TRUE]

\* Line 78: the content script answers with the two URLs.
ObtainUrlsDone ==
    /\ pc = "obtainUrls"
    /\ manifestUrl' = world.manifestUrl
    /\ documentUrl' = world.documentUrl
    /\ pc' = "obtainManifest"
    /\ UNCHANGED <<world, res, manifest, sites, profiles, uncaught, submitDisabled,
                   errorVars, formVars, submitPc, clickVars, sent, inFlight, lastCall, closeVars, edits>>

\* Line 78: the tab has no content script; the await rejects and
\* initializeForm rejects with it.
ObtainUrlsFail ==
    /\ pc = "obtainUrls"
    /\ pc' = "rejected"
    /\ uncaught' = <<"Error: Could not establish connection. Receiving end does not exist.">>
    /\ UNCHANGED <<world, res, loadVars, submitDisabled, errorVars, formVars, submitPc,
                   clickVars, sent, inFlight, lastCall, closeVars, edits>>

\* Lines 12-13: fetch or json() rejects.
FetchManifestFail ==
    /\ pc = "obtainManifest"
    /\ pc' = "rejected"
    /\ uncaught' = ErrFetch
    /\ UNCHANGED <<world, res, loadVars, submitDisabled, errorVars, formVars, submitPc,
                   clickVars, sent, inFlight, lastCall, closeVars, edits>>

\* Line 79, then line 85 up to its await: the manifest is resolved and
\* checked; a throw rejects initializeForm, else GetSiteList is sent.
ObtainManifestDone ==
    /\ pc = "obtainManifest"
    /\ LET r == obtainManifest(world.raw, manifestUrl, documentUrl)
       IN  IF r.threw # NoError
           THEN /\ pc' = "rejected"
                /\ uncaught' = r.threw
                /\ UNCHANGED <<manifest, sent>>
           ELSE /\ manifest' = r.manifest
                /\ sent' = Append(sent, Command("GetSiteList", NoParams))
                /\ pc' = "obtainSiteList"
                /\ UNCHANGED uncaught
    /\ UNCHANGED <<world, res, manifestUrl, documentUrl, sites, profiles, submitDisabled,
                   errorVars, formVars, submitPc, clickVars, inFlight, lastCall, closeVars,
                   edits>>

\* Lines 85-94: the reply to GetSiteList; a failure is shown and
\* initializeForm returns, else GetProfileList is sent.
SiteListReply ==
    /\ pc = "obtainSiteList"
    /\ \E i \in 1..Len(Replies("GetSiteList", world.sites)) :
         LET reply == Replies("GetSiteList", world.sites)[i]
             r == obtainSiteList(reply)
         IN  /\ lastCall' = Call("GetSiteList", reply)
             /\ IF r.threw # NoError
                THEN /\ errorText' = r.threw
                     /\ toastShown' = TRUE
                     /\ pc' = "returned"
                     /\ UNCHANGED <<sites, sent>>
                ELSE /\ sites' = r.value
                     /\ sent' = Append(sent, Command("GetProfileList", NoParams))
                     /\ pc' = "obtainProfileList"
                     /\ UNCHANGED errorVars
    /\ UNCHANGED <<world, res, manifestUrl, documentUrl, manifest, profiles, uncaught,
                   submitDisabled, formVars, submitPc, clickVars, inFlight, closeVars, edits>>

\* Object.values(profiles) mapped to the option values, then the option
\* that creates a profile (lines 117-120).
RECURSIVE Ulids(_)
Ulids(list) == IF list = <<>> THEN <<>> ELSE <<Head(list).ulid>> \o Ulids(Tail(list))

\* `manifest.categories || []` of lines 110 and 113.
OrEmpty(list) == IF list.present THEN list.items ELSE <<>>

\* Lines 86-94 and 96-231: the reply to GetProfileList; a failure is shown
\* and initializeForm returns, else the form is filled, the listeners are
\* added, the submit button is enabled and both validators run once.
ProfileListReply ==
    /\ pc = "obtainProfileList"
    /\ \E i \in 1..Len(Replies("GetProfileList", world.profiles)) :
         LET reply == Replies("GetProfileList", world.profiles)[i]
             r == obtainProfileList(reply)
         IN  /\ lastCall' = Call("GetProfileList", reply)
             /\ IF r.threw # NoError
                THEN /\ errorText' = r.threw
                     /\ toastShown' = TRUE
                     /\ pc' = "returned"
                     /\ UNCHANGED <<profiles, submitDisabled, formVars, submitPc>>
                ELSE LET options == Append(Ulids(r.value), CreateNewProfile)
                         placeholder == placeholderName(manifest)
                     IN  /\ profiles' = r.value
                         /\ namePlaceholder' = placeholder
                         /\ userCategories' = OrEmpty(manifest.categories)
                         /\ userKeywords' = OrEmpty(manifest.keywords)
                         /\ profileOptions' = options
                         /\ profileValue' = Head(options)
                         /\ lastProfileSelection' = Head(options)
                         /\ realSelection' = IF Head(options) # CreateNewProfile
                                             THEN Head(options) ELSE ""
                         /\ submitDisabled' = FALSE
                         /\ nameCustom' = nameValidation(nameValue, placeholder, sites)
                         /\ startUrlCustom' = startUrlValidation(startUrlValue, manifest.scope)
                         /\ submitPc' = "idle"
                         /\ pc' = "ready"
                         /\ UNCHANGED <<errorVars, nameValue, startUrlValue, createVars>>
    /\ UNCHANGED <<world, res, manifestUrl, documentUrl, manifest, sites, uncaught,
                   clickVars, sent, inFlight, closeVars, edits>>

(***************************************************************************)
(* The user edits the form.  The modal dialog has a static backdrop: while *)
(* it is shown the form behind it takes no input.                          *)
(***************************************************************************)
CanEdit ==
    /\ pc = "ready"
    /\ ~modalShown
    /\ ~windowClosed
    /\ edits < MaxEdits

\* Lines 195-197: an input event on the name input runs nameValidation.
NameInput ==
    /\ CanEdit
    /\ \E v \in NameInputs \ {nameValue} :
         /\ nameValue' = v
         /\ nameCustom' = nameValidation(v, namePlaceholder, sites)
    /\ edits' = edits + 1
    /\ UNCHANGED <<world, res, pc, loadVars, uncaught, submitDisabled, errorVars,
                   namePlaceholder, startUrlVars, tagVars, profileVars, createVars,
                   submitPc, clickVars, sent, inFlight, lastCall, closeVars>>

\* Lines 229-231: an input event on the start URL input runs
\* startUrlValidation.
StartUrlInput ==
    /\ CanEdit
    /\ \E v \in StartUrlInputs \ {startUrlValue} :
         /\ startUrlValue' = v
         /\ startUrlCustom' = startUrlValidation(v, manifest.scope)
    /\ edits' = edits + 1
    /\ UNCHANGED <<world, res, pc, loadVars, uncaught, submitDisabled, errorVars,
                   nameVars, tagVars, profileVars, createVars,
                   submitPc, clickVars, sent, inFlight, lastCall, closeVars>>

Contains(items, x) == \E i \in 1..Len(items) : items[i] = x
Without(items, i) == SubSeq(items, 1, i - 1) \o SubSeq(items, i + 1, Len(items))

\* The tags widget: the user adds a tag that is not there yet.
AddCategory ==
    /\ CanEdit
    /\ Len(userCategories) < MaxTags
    /\ \E t \in CategoryValues :
         /\ ~Contains(userCategories, t)
         /\ userCategories' = Append(userCategories, t)
    /\ edits' = edits + 1
    /\ UNCHANGED <<world, res, pc, loadVars, uncaught, submitDisabled, errorVars,
                   nameVars, startUrlVars, userKeywords, profileVars, createVars,
                   submitPc, clickVars, sent, inFlight, lastCall, closeVars>>

\* The tags widget: the user removes a tag.
RemoveCategory ==
    /\ CanEdit
    /\ \E i \in 1..Len(userCategories) : userCategories' = Without(userCategories, i)
    /\ edits' = edits + 1
    /\ UNCHANGED <<world, res, pc, loadVars, uncaught, submitDisabled, errorVars,
                   nameVars, startUrlVars, userKeywords, profileVars, createVars,
                   submitPc, clickVars, sent, inFlight, lastCall, closeVars>>

AddKeyword ==
    /\ CanEdit
    /\ Len(userKeywords) < MaxTags
    /\ \E t \in KeywordValues :
         /\ ~Contains(userKeywords, t)
         /\ userKeywords' = Append(userKeywords, t)
    /\ edits' = edits + 1
    /\ UNCHANGED <<world, res, pc, loadVars, uncaught, submitDisabled, errorVars,
                   nameVars, startUrlVars, userCategories, profileVars, createVars,
                   submitPc, clickVars, sent, inFlight, lastCall, closeVars>>

RemoveKeyword ==
    /\ CanEdit
    /\ \E i \in 1..Len(userKeywords) : userKeywords' = Without(userKeywords, i)
    /\ edits' = edits + 1
    /\ UNCHANGED <<world, res, pc, loadVars, uncaught, submitDisabled, errorVars,
                   nameVars, startUrlVars, userCategories, profileVars, createVars,
                   submitPc, clickVars, sent, inFlight, lastCall, closeVars>>

(***************************************************************************)
(* The profile select and the new-profile dialog, lines 122-170.           *)
(***************************************************************************)
\* Lines 124-132: the user picks another option of the select.
ProfileChange ==
    /\ CanEdit
    /\ \E i \in 1..Len(profileOptions) :
         LET v == profileOptions[i]
         IN  /\ v # profileValue
             /\ profileValue' = v
             /\ IF v # CreateNewProfile
                THEN /\ lastProfileSelection' = v
                     /\ realSelection' = v
                     /\ UNCHANGED modalShown
                ELSE /\ modalShown' = TRUE
                     /\ UNCHANGED <<lastProfileSelection, realSelection>>
    /\ edits' = edits + 1
    /\ UNCHANGED <<world, res, pc, loadVars, uncaught, submitDisabled, errorVars,
                   nameVars, startUrlVars, tagVars, profileOptions,
                   createDisabled, createPc, newProfileName,
                   submitPc, clickVars, sent, inFlight, lastCall, closeVars>>

\* Lines 134-136: the cancel button of the dialog, which also dismisses it.
NewProfileCancel ==
    /\ modalShown
    /\ ~windowClosed
    /\ profileValue' = SelectValue(profileOptions, lastProfileSelection)
    /\ modalShown' = FALSE
    /\ UNCHANGED <<world, res, pc, loadVars, uncaught, submitDisabled, errorVars,
                   nameVars, startUrlVars, tagVars, profileOptions, lastProfileSelection,
                   realSelection,
                   createDisabled, createPc, newProfileName,
                   submitPc, clickVars, sent, inFlight, lastCall, closeVars, edits>>

\* Line 143: this.disabled of the create button during the call.
CreateDisabledWhileCreating == TRUE

\* Lines 138-151: the create button of the dialog, up to the await.
NewProfileCreate ==
    /\ modalShown
    /\ ~createDisabled
    /\ ~windowClosed
    /\ \E typed \in NewProfileNames :
         /\ newProfileName' = Or(typed, Null)
         /\ sent' = Append(sent, Command("CreateProfile",
                                          [name |-> Or(typed, Null), description |-> Null]))
    /\ inFlight' = [inFlight EXCEPT !.CreateProfile = @ + 1]
    /\ createDisabled' = CreateDisabledWhileCreating
    /\ createPc' = "await"
    /\ UNCHANGED <<world, res, pc, loadVars, uncaught, submitDisabled, errorVars,
                   nameVars, startUrlVars, tagVars, profileVars, modalShown,
                   submitPc, clickVars, lastCall, closeVars, edits>>

\* Lines 153-169: the reply to CreateProfile.  After the try statement the
\* option is added and selected and the dialog is hidden, whether or not
\* the call failed.
CreateProfileReply ==
    /\ createPc = "await"
    /\ ~windowClosed
    /\ \E i \in 1..Len(Replies("CreateProfile", NewUlid)) :
         LET reply == Replies("CreateProfile", NewUlid)[i]
             r == createProfileReply(reply)
             value == OptionValue(newProfileName, r.value)
         IN  /\ lastCall' = Call("CreateProfile", reply)
             /\ IF r.threw # NoError
                THEN errorText' = r.threw /\ toastShown' = TRUE
                ELSE toastShown' = FALSE /\ UNCHANGED errorText
             /\ profileOptions' = Append(profileOptions, value)
             /\ profileValue' = value
             /\ realSelection' = IF r.threw # NoError THEN realSelection ELSE value
    /\ inFlight' = [inFlight EXCEPT !.CreateProfile = @ - 1]
    /\ modalShown' = FALSE
    /\ createPc' = "idle"
    /\ UNCHANGED <<world, res, pc, loadVars, uncaught, submitDisabled,
                   nameVars, startUrlVars, tagVars, lastProfileSelection,
                   createDisabled, newProfileName,
                   submitPc, clickVars, sent, closeVars, edits>>

(***************************************************************************)
(* submit.onclick, lines 234-298.                                          *)
(***************************************************************************)
\* A plausible slip: the validity of the name input alone is looked at.
checkValidityNameOnly == nameCustom = ""

\* form.checkValidity(): no input has a custom validity message (a start
\* URL with a type mismatch has one, set by startUrlValidation).
checkValidity == nameCustom = "" /\ startUrlCustom = ""

RefNull == [kind |-> "null"]

\* A plausible slip: the submit button left enabled during the call.
EnabledWhileInstalling == FALSE
\* Line 242: submit.disabled during the call.
DisabledWhileInstalling == TRUE

\* Lines 234-275: a click on the enabled submit button, up to the await.
\* An invalid form returns at line 239.  toString of a missing categories
\* or keywords member throws outside the try statement.
SubmitClick ==
    /\ pc = "ready"
    /\ ~submitDisabled
    /\ ~modalShown
    /\ ~windowClosed
    /\ IF ~checkValidity
       THEN /\ lastClick' = "invalid"
            /\ UNCHANGED <<submitDisabled, uncaught, sent, inFlight, submitPc, submitLocals>>
       ELSE LET categories == tagsOverride(userCategories, manifest.categories)
                keywords == IF categories.threw # NoError THEN categories
                            ELSE tagsOverride(userKeywords, manifest.keywords)
            IN  /\ submitDisabled' = DisabledWhileInstalling
                /\ submitLocals' = [userCategories |-> userCategories,
                                    userKeywords |-> userKeywords]
                /\ IF keywords.threw # NoError
                   THEN /\ uncaught' = keywords.threw
                        /\ lastClick' = "threw"
                        /\ UNCHANGED <<sent, inFlight, submitPc>>
                   ELSE /\ sent' = Append(sent, Command("InstallSite",
                                [manifest_url |-> manifestUrl,
                                 document_url |-> documentUrl,
                                 start_url |-> IF Truthy(startUrlValue) THEN startUrlValue
                                               ELSE RefNull,
                                 profile |-> Or(profileValue, Null),
                                 name |-> Or(nameValue, Null),
                                 description |-> Null,
                                 categories |-> categories.value,
                                 keywords |-> keywords.value]))
                        /\ inFlight' = [inFlight EXCEPT !.InstallSite = @ + 1]
                        /\ submitPc' = "await"
                        /\ lastClick' = "sent"
                        /\ UNCHANGED uncaught
    /\ UNCHANGED <<world, res, pc, loadVars, errorVars, formVars, lastCall, closeVars, edits>>

\* Line 285: submit.disabled after a SiteInstalled response.
DisabledWhenInstalled == TRUE

\* A plausible slip: the setTimeout call left out.
CloseTimerNotSet == FALSE
\* Lines 289-291: setTimeout is called after a SiteInstalled response.
CloseTimerSet == TRUE

\* Lines 277-297: the reply to InstallSite.  On success the toast is
\* hidden, the button stays disabled and the close timer is started; on
\* failure the error is shown.
InstallSiteReply ==
    /\ submitPc = "await"
    /\ ~windowClosed
    /\ \E i \in 1..Len(Replies("InstallSite", "installed")) :
         LET reply == Replies("InstallSite", "installed")[i]
             r == installSiteReply(reply)
         IN  /\ lastCall' = Call("InstallSite", reply)
             /\ inFlight' = [inFlight EXCEPT !.InstallSite = @ - 1]
             /\ IF r.threw # NoError
                THEN /\ errorText' = r.threw
                     /\ toastShown' = TRUE
                     /\ submitPc' = "idle"
                     /\ UNCHANGED <<submitDisabled, closeTimer>>
                ELSE /\ toastShown' = FALSE
                     /\ submitDisabled' = DisabledWhenInstalled
                     /\ closeTimer' = CloseTimerSet
                     /\ submitPc' = "installed"
                     /\ UNCHANGED errorText
    /\ UNCHANGED <<world, res, pc, loadVars, uncaught, formVars, clickVars, sent,
                   windowClosed, edits>>

\* The delay of the close timer, in milliseconds.
CloseDelay == 5000

\* Lines 289-291: the timer fires and closes the popup.
CloseTimerFires ==
    /\ closeTimer
    /\ ~windowClosed
    /\ closeTimer' = FALSE
    /\ windowClosed' = TRUE
    /\ UNCHANGED <<world, res, pc, loadVars, uncaught, submitDisabled, errorVars, formVars,
                   submitPc, clickVars, sent, inFlight, lastCall, edits>>

Next ==
    \/ ObtainUrlsDone
    \/ ObtainUrlsFail
    \/ FetchManifestFail
    \/ ObtainManifestDone
    \/ SiteListReply
    \/ ProfileListReply
    \/ NameInput
    \/ StartUrlInput
    \/ AddCategory
    \/ RemoveCategory
    \/ AddKeyword
    \/ RemoveKeyword
    \/ ProfileChange
    \/ NewProfileCancel
    \/ NewProfileCreate
    \/ CreateProfileReply
    \/ SubmitClick
    \/ InstallSiteReply
    \/ CloseTimerFires

Spec == Init /\ [][Next]_vars

\* The event loop runs the callback of a timer that was set.
SpecFair == Init /\ [][Next]_vars /\ WF_vars(CloseTimerFires)

(***************************************************************************)
(* obtainManifest alone, on every pair of URLs and every manifest of the   *)
(* sets below, and once more on the manifest it returned.                  *)
(***************************************************************************)
ResolveManifestUrls ==
    {UrlManifest, UrlManifestDeep, UrlManifestOther, Url(DocX, <<SegApp, <<"m">>>>, <<>>)}
ResolveDocumentUrls ==
    {UrlAppPage, UrlAppDir, UrlAppPageQuery, UrlOtherAppPage, Url(DocX, <<SegEmpty>>, <<>>)}
ResolveRefs ==
    {RefAbsent, RefEmpty, RefBad, RefAbs(UrlAppPage), RefAbs(UrlOtherApp),
     RefPath(<<SegApp>>, <<>>), RefPath(<<SegApp, SegEmpty>>, <<>>),
     RefRel(<<SegPage>>, <<>>), RefRel(<<SegDot>>, <<>>),
     RefRel(<<SegDotDot, SegApplication>>, <<"?", "q">>)}

\* The manifest obtainManifest returned, as the JSON of a second call: its
\* start_url and scope are href strings.
AsRaw(m) == [m EXCEPT !.start_url = RefAbs(m.start_url), !.scope = RefAbs(m.scope)]

InitResolve ==
    /\ world = World(ManifestFoo, NoSites, NoProfiles)
    /\ FlowInit
    /\ \E m \in ResolveManifestUrls, d \in ResolveDocumentUrls,
          s \in ResolveRefs, c \in ResolveRefs :
         res = [phase |-> "input", manifestUrl |-> m, documentUrl |-> d,
                raw |-> Manifest(Undefined, Undefined, s, c, NoList, NoList),
                first |-> Unset, second |-> Unset]

\* obtainManifest(manifestUrl, documentUrl) on the fetched manifest.
Resolve ==
    /\ res.phase = "input"
    /\ res' = [res EXCEPT !.phase = "resolved",
                          !.first = obtainManifest(res.raw, res.manifestUrl, res.documentUrl)]
    /\ UNCHANGED <<world, flowVars>>

\* obtainManifest on the manifest the first call returned.
ResolveAgain ==
    /\ res.phase = "resolved"
    /\ res.first.threw = NoError
    /\ res' = [res EXCEPT !.phase = "again",
                          !.second = obtainManifest(AsRaw(res.first.manifest),
                                                    res.manifestUrl, res.documentUrl)]
    /\ UNCHANGED <<world, flowVars>>

NextResolve == Resolve \/ ResolveAgain

SpecResolve == InitResolve /\ [][NextResolve]_vars

(***************************************************************************)
(* Properties of the manifest resolution (SpecResolve).                    *)
(***************************************************************************)
\* A member holds a reference the URL parser accepts.
Parses(ref) == Truthy(ref) /\ ref.kind # "bad"

\* The first call assigned manifest.start_url (line 19 or 21 was reached).
StartResolved == res.phase \in {"resolved", "again"} /\ res.first.manifest.start_url # Unset
\* The first call assigned manifest.scope (line 28 or 31 was reached).
ScopeResolved == res.phase \in {"resolved", "again"} /\ res.first.manifest.scope # Unset

DotRef == RefRel(<<SegDot>>, <<>>)

\* C2: a start_url the manifest holds is resolved with the manifest URL as
\* the base, whatever the document URL is; without one the resolved
\* start_url is the document URL.
C2_StartUrlAgainstManifestUrl ==
    StartResolved =>
        /\ Parses(res.raw.start_url) =>
              res.first.manifest.start_url = NewUrl(res.raw.start_url, res.manifestUrl)
        /\ ~Truthy(res.raw.start_url) =>
              res.first.manifest.start_url = res.documentUrl

BothAbsent == res.raw.start_url = RefAbsent /\ res.raw.scope = RefAbsent

\* The URL is that of a directory: its path ends in "/" and it has no query.
IsDirectory(url) == url.path[Len(url.path)] = SegEmpty /\ url.search = <<>>

\* C4 as stated: with start_url and scope both absent the resolved
\* start_url, the resolved scope and the document URL are all equal, the
\* scope is "." joined against the start_url, and a second resolution
\* changes neither.
C4_AllEqualDocumentUrl ==
    (BothAbsent /\ res.phase \in {"resolved", "again"}) =>
        /\ res.first.threw = NoError
        /\ res.first.manifest.start_url = res.documentUrl
        /\ res.first.manifest.scope = res.documentUrl
        /\ res.first.manifest.scope = NewUrl(DotRef, res.first.manifest.start_url)
        /\ res.phase = "again" =>
              /\ res.second.manifest.start_url = res.first.manifest.start_url
              /\ res.second.manifest.scope = res.first.manifest.scope

\* C4 amended: with start_url and scope both absent the resolution succeeds,
\* the resolved start_url is the document URL, the resolved scope is "."
\* joined against it, which is the document URL exactly when that is the
\* URL of a directory, and a second resolution succeeds and changes neither.
C4_AbsentDefaults ==
    (BothAbsent /\ res.phase \in {"resolved", "again"}) =>
        /\ res.first.threw = NoError
        /\ res.first.manifest.start_url = res.documentUrl
        /\ res.first.manifest.scope = NewUrl(DotRef, res.first.manifest.start_url)
        /\ (res.first.manifest.scope = res.documentUrl) <=> IsDirectory(res.documentUrl)
        /\ res.phase = "again" =>
              /\ res.second.threw = NoError
              /\ res.second.manifest.start_url = res.first.manifest.start_url
              /\ res.second.manifest.scope = res.first.manifest.scope

\* Both members absent, resolved twice, and the scope is not the document
\* URL.
C4_Witness ==
    /\ BothAbsent
    /\ res.phase = "again"
    /\ res.first.manifest.scope # res.documentUrl
    /\ res.second.manifest.scope = res.first.manifest.scope

(***************************************************************************)
(* Properties of the install flow (Spec).                                  *)
(***************************************************************************)
\* The reply of the command answered last.
LastReply == lastCall.reply[CHOOSE t \in DOMAIN lastCall.reply : TRUE]

\* The InstallSite requests sent so far.
InstallRequests == { i \in 1..Len(sent) : sent[i].cmd = "InstallSite" }

\* The command whose reply was handled last did not give a result.
CallFailed(cmd) ==
    CASE cmd = "GetSiteList" -> pc = "returned" /\ sites = <<>>
      [] cmd = "GetProfileList" -> pc = "returned" /\ profiles = <<>>
      [] cmd = "CreateProfile" ->
            /\ createPc = "idle"
            /\ profileOptions[Len(profileOptions)] = OptionValue(newProfileName, Undefined)
      [] cmd = "InstallSite" -> submitPc = "idle" /\ ~closeTimer /\ ~windowClosed

\* The command whose reply was handled last went on with the reply's data.
CallReturned(cmd, data) ==
    CASE cmd = "GetSiteList" -> pc = "obtainProfileList" /\ sites = data
      [] cmd = "GetProfileList" -> pc = "ready" /\ profiles = data
      [] cmd = "CreateProfile" ->
            /\ createPc = "idle"
            /\ profileOptions[Len(profileOptions)] = data
      [] cmd = "InstallSite" -> submitPc = "installed"

\* C1: for each of the four commands and every response of the connector:
\* an "Error" response fails the call with the response data as the
\* message; a response of any type but the expected tag fails it with a
\* message that carries the received type; only a response of the expected
\* tag has its data used as the result.
C1_ResponseDiscrimination ==
    (lastCall.cmd # "none" /\ ~LastReply.rejected) =>
        LET cmd == lastCall.cmd
            type == LastReply.type
            data == LastReply.data
        IN  /\ type = "Error" =>
                  CallFailed(cmd) /\ errorText = <<data>> /\ toastShown
            /\ type \notin {"Error", ExpectedTag(cmd)} =>
                  /\ CallFailed(cmd)
                  /\ errorText = <<"Received invalid response type: ", type>>
                  /\ toastShown
            /\ type = ExpectedTag(cmd) => CallReturned(cmd, data)

\* GetSiteList was answered with an "Error" response and its data is shown.
C1_Witness ==
    /\ lastCall.cmd = "GetSiteList"
    /\ ~LastReply.rejected
    /\ LastReply.type = "Error"
    /\ errorText = <<"boom">>
    /\ pc = "returned"

\* Rule A and rule B of the load-time validation.
LoadRules(m, docUrl) ==
    /\ m.start_url.origin = docUrl.origin
    /\ m.start_url.origin = m.scope.origin
    /\ StartsWith(Pathname(m.start_url.path), Pathname(m.scope.path))

\* The start URL and scope the world's manifest resolves to, or Unset.
WorldStartUrl == ResolveStartUrl(world.raw, world.manifestUrl, world.documentUrl).url
WorldScope ==
    IF WorldStartUrl = Unset THEN Unset
    ELSE ResolveScope(world.raw, world.manifestUrl, world.documentUrl, WorldStartUrl).url
WorldManifestViolatesRules ==
    /\ WorldStartUrl # Unset
    /\ WorldScope # Unset
    /\ ~LoadRules([start_url |-> WorldStartUrl, scope |-> WorldScope], world.documentUrl)

\* C5: the flow gets past obtainManifest, and so to line 174 where the
\* submit button is enabled, only with a manifest whose resolved start_url
\* has the origin of the document URL and lies within the resolved scope; a
\* manifest that breaks either rule stops the load there: nothing is sent
\* to the connector and submit.onclick is never set.
C5_ReadyOnlyWithValidManifest ==
    /\ pc \in {"obtainSiteList", "obtainProfileList", "returned", "ready"}
          => (manifest # Unset /\ LoadRules(manifest, documentUrl))
    /\ WorldManifestViolatesRules =>
          /\ pc \in {"obtainUrls", "obtainManifest", "rejected"}
          /\ submitDisabled = SubmitInitiallyDisabled
          /\ submitPc = "unset"
          /\ sent = <<>>

\* The load was stopped by a start URL of another origin.
C5_Witness ==
    /\ WorldManifestViolatesRules
    /\ pc = "rejected"
    /\ uncaught = ErrOrigin
    /\ submitPc = "unset"

\* Rule B on a candidate start URL, the empty candidate being valid.
CandidateValid(value, scope) ==
    \/ value = RefEmpty
    \/ /\ value.kind = "abs"
       /\ value.url.origin = scope.origin
       /\ StartsWith(Pathname(value.url.path), Pathname(scope.path))

\* C6: after any edits of the start URL input its custom validity is empty
\* exactly when the current value is empty or is a URL with the scope's
\* origin and a pathname that starts with the scope's pathname.
C6_StartUrlVerdict ==
    pc = "ready" => ((startUrlCustom = "") <=> CandidateValid(startUrlValue, manifest.scope))

\* After two edits the input holds /ab, accepted under the scope /a.
C6_Witness ==
    /\ pc = "ready"
    /\ edits >= 2
    /\ startUrlValue = RefAbs(UrlApplication)
    /\ manifest.scope = UrlApp
    /\ startUrlCustom = ""

\* The candidate name: the typed name, else name, short_name, scope host.
CandidateName(typed) ==
    IF typed \notin {"", Null} THEN typed
    ELSE IF manifest.name # Undefined THEN manifest.name
    ELSE IF manifest.short_name # Undefined THEN manifest.short_name
    ELSE Host(manifest.scope.origin)

\* The display name of an existing site.
DisplayName(site) ==
    IF site.config_name # Undefined THEN site.config_name
    ELSE IF site.manifest_name # Undefined THEN site.manifest_name
    ELSE site.manifest_short_name

NameCollides(typed) ==
    \E i \in 1..Len(sites) : DisplayName(sites[i]) = CandidateName(typed)

\* C7: the name input is invalid exactly when the candidate name is the
\* display name of an existing site, and no InstallSite request carries a
\* name whose candidate collides.
C7_NameCollision ==
    pc = "ready" =>
        /\ (nameCustom # "") <=> NameCollides(nameValue)
        /\ NameCollides(nameValue) => ~checkValidity
        /\ \A i \in InstallRequests : ~NameCollides(sent[i].params.name)

\* A submit was refused while the placeholder name collides.
C7_Witness ==
    /\ pc = "ready"
    /\ nameValue = ""
    /\ NameCollides(nameValue)
    /\ lastClick = "invalid"
    /\ InstallRequests = {}

\* C8: the categories (keywords) of an InstallSite request are empty if the
\* user's sequence equals the manifest's element by element, and the
\* user's whole sequence otherwise.
C8_TagsDiff ==
    (lastClick = "sent" /\ manifest.categories.present /\ manifest.keywords.present) =>
        \A i \in InstallRequests :
            /\ sent[i].params.categories =
                  IF submitLocals.userCategories = manifest.categories.items
                  THEN <<>> ELSE submitLocals.userCategories
            /\ sent[i].params.keywords =
                  IF submitLocals.userKeywords = manifest.keywords.items
                  THEN <<>> ELSE submitLocals.userKeywords

\* C9: a failure during loading is shown to the user, and the submit
\* button stays disabled.
C9_LoadFailureShown ==
    pc \in {"rejected", "returned"} =>
        /\ submitDisabled
        /\ toastShown
        /\ errorText # NoError

\* C10: when InstallSite failed, the error is shown and the submit button
\* is enabled again.
C10_SubmitEnabledAfterFailure ==
    (lastCall.cmd = "InstallSite" /\ installSiteReply(LastReply).threw # NoError
        /\ submitPc = "idle") =>
        /\ toastShown
        /\ errorText = installSiteReply(LastReply).threw
        /\ ~submitDisabled

\* C11: after a SiteInstalled response the submit button is disabled and
\* stays so, the flow stays installed, no further InstallSite request is
\* sent, and the close timer eventually closes the popup.
C11_InstalledTerminal ==
    /\ [](submitPc = "installed" => (submitDisabled /\ Cardinality(InstallRequests) = 1))
    /\ [][submitPc = "installed" =>
            (submitPc' = "installed" /\ submitDisabled' /\ InstallRequests' = InstallRequests)]_vars
    /\ (submitPc = "installed" ~> windowClosed)

\* The site was installed and the timer has closed the popup.
C11_Witness ==
    /\ submitPc = "installed"
    /\ lastCall.cmd = "InstallSite"
    /\ LastReply.type = "SiteInstalled"
    /\ submitDisabled
    /\ windowClosed

\* The step that handles a ProfileCreated reply to CreateProfile.
ProfileCreatedStep ==
    /\ createPc = "await" /\ createPc' = "idle"
    /\ lastCall'.cmd = "CreateProfile"
    /\ ~LastReply'.rejected
    /\ LastReply'.type = "ProfileCreated"

\* C12: when CreateProfile succeeds, an option for the returned ulid is
\* appended and selected and it is recorded as the last selection, so that
\* a later cancel of the dialog puts the select on the created profile.
C12_CreatedProfileRecorded ==
    [][ProfileCreatedStep =>
        /\ profileOptions' = Append(profileOptions, LastReply'.data)
        /\ profileValue' = LastReply'.data
        /\ lastProfileSelection' = LastReply'.data
        /\ SelectValue(profileOptions', lastProfileSelection') = LastReply'.data]_vars

\* C13: when CreateProfile failed, the error is shown and, the handler
\* having returned, the create button is enabled again.
C13_CreateEnabledAfterFailure ==
    (lastCall.cmd = "CreateProfile" /\ createProfileReply(LastReply).threw # NoError
        /\ createPc = "idle") =>
        /\ toastShown
        /\ errorText = createProfileReply(LastReply).threw
        /\ ~createDisabled

\* The step of the dialog's cancel button.
CancelStep == modalShown /\ ~modalShown' /\ createPc' = createPc

\* C14: a cancel of the new-profile dialog puts the select on the profile
\* selected last (by the user, at load, or by a successful creation), and
\* never leaves it on the option that creates a profile.
C14_CancelRevertsToRealSelection ==
    [][CancelStep =>
        /\ profileValue' = realSelection
        /\ profileValue' # CreateNewProfile]_vars

\* C15: at most one InstallSite request and at most one CreateProfile
\* request is unanswered, and while one is, its button is disabled.
C15_NoDuplicateInFlight ==
    /\ inFlight.InstallSite <= 1
    /\ inFlight.CreateProfile <= 1
    /\ (inFlight.InstallSite = 1 => submitDisabled)
    /\ (inFlight.CreateProfile = 1 => createDisabled)

\* An InstallSite request and a CreateProfile request are both unanswered
\* (the dialog was cancelled during the creation, then submit was clicked).
C15_Witness ==
    /\ inFlight.InstallSite = 1
    /\ inFlight.CreateProfile = 1
    /\ submitPc = "await" /\ createPc = "await"

\* The step of a click on submit while the form is valid.
ValidClickStep ==
    /\ checkValidity
    /\ lastClick' # lastClick
    /\ lastClick' \in {"sent", "threw"}

\* The step that handles a reply which is not the expected one.
FailedReplyStep ==
    /\ lastCall' # lastCall
    /\ (LastReply'.rejected \/ LastReply'.type # ExpectedTag(lastCall'.cmd))

\* C16: a click on submit with a valid form sends exactly one InstallSite
\* request, whatever the manifest declares, and handling a failed reply
\* sends nothing.
C16_OneRequestPerValidClick ==
    /\ [][ValidClickStep =>
            /\ Len(sent') = Len(sent) + 1
            /\ sent'[Len(sent')].cmd = "InstallSite"]_vars
    /\ [][FailedReplyStep => sent' = sent]_vars

\* The step that handles the expected reply to CreateProfile or InstallSite.
SuccessStep ==
    /\ lastCall' # lastCall
    /\ lastCall'.cmd \in {"CreateProfile", "InstallSite"}
    /\ ~LastReply'.rejected
    /\ LastReply'.type = ExpectedTag(lastCall'.cmd)

\* C17: an error toast that is shown is hidden only by the step that
\* handles a successful CreateProfile or InstallSite; a failed reply leaves
\* it shown, and so do edits, clicks and a cancel of the dialog.
C17_ErrorStaysShown ==
    /\ [][(toastShown /\ ~toastShown') => SuccessStep]_vars
    /\ [][FailedReplyStep => (toastShown' /\ errorText' # NoError)]_vars

\* An error was shown (a failed CreateProfile) and the toast was hidden by
\* the successful installation that followed.
C17_Witness ==
    /\ errorText # NoError
    /\ ~toastShown
    /\ lastCall.cmd = "InstallSite"
    /\ LastReply.type = "SiteInstalled"
    /\ submitPc = "installed"

\* The step that sends a command.
SendStep(cmd) ==
    /\ Len(sent') = Len(sent) + 1
    /\ sent'[Len(sent')].cmd = cmd

\* C18: a command is sent only once the URLs were obtained and the manifest
\* was resolved and passed the load rules; GetSiteList is the first command
\* and GetProfileList the second, sent by the step that handles a SiteList
\* reply; CreateProfile and InstallSite come after them, when both lists
\* were received.
C18_LoadOrdering ==
    /\ [](sent # <<>> =>
            /\ manifestUrl # Unset /\ documentUrl # Unset /\ manifest # Unset
            /\ obtainManifest(world.raw, manifestUrl, documentUrl).threw = NoError
            /\ LoadRules(manifest, documentUrl))
    /\ [](\A i \in 1..Len(sent) :
            /\ sent[i].cmd = "GetSiteList" <=> i = 1
            /\ sent[i].cmd = "GetProfileList" <=> i = 2)
    /\ [][SendStep("GetProfileList") =>
            /\ pc = "obtainSiteList"
            /\ lastCall'.cmd = "GetSiteList"
            /\ ~LastReply'.rejected
            /\ LastReply'.type = "SiteList"
            /\ sites' = LastReply'.data]_vars
    /\ [][(SendStep("CreateProfile") \/ SendStep("InstallSite")) =>
            /\ pc = "ready"
            /\ Len(sent) >= 2
            /\ sites = world.sites
            /\ profiles = world.profiles]_vars

\* All four commands were sent, in the order of the load and the clicks.
C18_Witness ==
    /\ Len(sent) = 4
    /\ sent[1].cmd = "GetSiteList"
    /\ sent[2].cmd = "GetProfileList"
    /\ sent[3].cmd = "CreateProfile"
    /\ sent[4].cmd = "InstallSite"

\* The ulids of the profiles the connector has: those of its list, and the
\* one of a profile it created (its option carries the returned ulid).
RealProfiles ==
    {world.profiles[i].ulid : i \in 1..Len(world.profiles)}
        \cup (IF Contains(profileOptions, NewUlid) THEN {NewUlid} ELSE {})

\* C19: the profile of every InstallSite request sent is null or the ulid
\* of a profile of the connector, never the value of the option that
\* creates a profile nor of an option left by a failed creation.
C19_ProfileIsRealOrNull ==
    \A i \in InstallRequests : sent[i].params.profile \in {Null} \cup RealProfiles

\* C20: the start_url of every InstallSite request sent is null or a URL
\* with the origin of the manifest's scope and a pathname that starts with
\* the scope's pathname; a click on submit while the start URL input holds
\* another value sends nothing.
C20_StartUrlSentWithinScope ==
    /\ [](\A i \in InstallRequests :
            LET startUrl == sent[i].params.start_url
            IN  \/ startUrl = RefNull
                \/ /\ startUrl.kind = "abs"
                   /\ startUrl.url.origin = manifest.scope.origin
                   /\ StartsWith(Pathname(startUrl.url.path), Pathname(manifest.scope.path)))
    /\ [][~CandidateValid(startUrlValue, manifest.scope) =>
            ~SendStep("InstallSite")]_vars

\* A request was sent with a start URL the user typed.
C20_Witness ==
    \E i \in InstallRequests :
        /\ sent[i].params.start_url # RefNull
        /\ sent[i].params.start_url = startUrlValue
        /\ startUrlCustom = ""

====
